---- MODULE Spec2Model ----
(***************************************************************************)
(* Verification model of the Twilio <-> Gemini voice bridge.               *)
(*                                                                         *)
(* The repository holds nine revisions of the same /media-stream           *)
(* websocket handler.  One session of one handler is modelled; the         *)
(* handler revision is the state variable `variant`, fixed in Init.        *)
(*                                                                         *)
(*   part_000   src/unnamed/part_000  34-151  echo gate (isAiSpeaking)     *)
(*   part_001   src/unnamed/part_001  37-107  greeting on start            *)
(*   part_002   src/unnamed/part_002  52-143  geminiReady gate             *)
(*   part_003a  src/unnamed/part_003  34-152  batching of 5 chunks         *)
(*   part_003b  src/unnamed/part_003 268-348  geminiReady gate, no table   *)
(*   part_004   src/unnamed/part_004  39-156  gate on socket open          *)
(*   server_1   src/server.js         35-145  generic linear resamplers    *)
(*   server_2   src/server.js        271-406  isSessionActive, volume gate *)
(*   server_3   src/server.js        500-625  debugger                     *)
(*                                                                         *)
(* Buffers are sequences of bytes (0..255); Int16Array views are sequences *)
(* of integers in -32768..32767.  Socket semantics are those of ws 8, the  *)
(* version @fastify/websocket depends on: send() on a socket that is not   *)
(* OPEN transmits nothing, close() while CONNECTING aborts the handshake   *)
(* and emits 'error' then 'close'.                                         *)
(*                                                                         *)
(* sentGemini and sentTwilio hold the frames the last handler passed to    *)
(* geminiWs.send and connection.socket.send, in call order.  packetCount   *)
(* (server.js, second handler) only feeds console.log and is left out.     *)
(***************************************************************************)
EXTENDS Integers, Sequences, FiniteSets, TLC

(***************************************************************************)
(* Bounds of the model                                                     *)
(***************************************************************************)
MaxParts == 2
\* longest PCM chunk, in samples, handed to a converter under test
MaxSamples == 4
\* greetings are counted up to this many
MaxGreetings == 2

(***************************************************************************)
(* Typed-array stores                                                      *)
(***************************************************************************)
RECURSIVE Pow2(_)
Pow2(n) == IF n = 0 THEN 1 ELSE 2 * Pow2(n - 1)

\* Storing a number into an Int16Array element keeps its low 16 bits.
ToInt16(v) == LET m == v % 65536 IN IF m >= 32768 THEN m - 65536 ELSE m

\* Storing a number into a Uint8Array / Buffer element keeps its low 8 bits.
ToUint8(v) == v % 256

\* Mutation: a trailing odd byte becomes one more sample.
Int16ViewPadded(buffer) ==
  [i \in 1..((Len(buffer) + 1) \div 2) |->
      IF 2 * i <= Len(buffer)
      THEN ToInt16(buffer[2 * i - 1] + 256 * buffer[2 * i])
      ELSE buffer[2 * i - 1]]
\* new Int16Array(buffer.buffer, buffer.byteOffset, buffer.length / 2):
\* little-endian 16-bit samples, the length truncated to an integer.
Int16View(buffer) ==
  [i \in 1..(Len(buffer) \div 2) |->
      ToInt16(buffer[2 * i - 1] + 256 * buffer[2 * i])]

\* Buffer.from(int16Array.buffer): the samples' bytes, little-endian.
BufferFromInt16(samples) ==
  [k \in 1..(2 * Len(samples)) |->
      LET u == samples[(k + 1) \div 2] % 65536
      IN  IF k % 2 = 1 THEN u % 256 ELSE u \div 256]

(***************************************************************************)
(* Mu-law codec                                                            *)
(***************************************************************************)
BIAS == 132
CLIP == 32635

\* for (expMask = 0x4000; (sample & expMask) === 0 && exponent > 0;
\*      exponent--, expMask >>= 1) { }
RECURSIVE ExponentLoop(_, _, _)
ExponentLoop(sample, exponent, expMask) ==
  IF (sample \div expMask) % 2 = 0 /\ exponent > 0
  THEN ExponentLoop(sample, exponent - 1, expMask \div 2)
  ELSE exponent

\* encodeMuLaw returns ~(sign | exponent << 4 | mantissa), a negative
\* number; the caller's Uint8Array store truncates it to 8 bits.
\* Mutation: the magnitude is not clipped before the bias is added.
encodeMuLawUnclipped(sample) ==
  LET sign     == IF ((sample \div 256) \div 128) % 2 = 1 THEN 128 ELSE 0
      mag      == IF sign # 0 THEN -sample ELSE sample
      biased   == mag + BIAS
      exponent == ExponentLoop(biased, 7, 16384)
      mantissa == (biased \div Pow2(exponent + 3)) % 16
  IN  -(sign + exponent * 16 + mantissa) - 1
encodeMuLaw(sample) ==
  LET sign     == IF ((sample \div 256) \div 128) % 2 = 1 THEN 128 ELSE 0
      mag      == IF sign # 0 THEN -sample ELSE sample
      clipped  == IF mag > CLIP THEN CLIP ELSE mag
      biased   == clipped + BIAS
      exponent == ExponentLoop(biased, 7, 16384)
      mantissa == (biased \div Pow2(exponent + 3)) % 16
  IN  -(sign + exponent * 16 + mantissa) - 1

\* decodeMuLaw (decodeMuLawSimple in part_004): the result is the raw
\* number; the caller's Int16Array store wraps it.
decodeMuLaw(muLawByte) ==
  LET inv      == -muLawByte - 1
      sign     == IF (inv \div 128) % 2 = 1 THEN 128 ELSE 0
      exponent == (inv \div 16) % 8
      mantissa == inv % 16
      sample   == (2 * mantissa + 33) * Pow2(12 - exponent) - BIAS
  IN  IF sign = 0 THEN sample ELSE -sample

MU_LAW_TABLE ==
  << 
     -32124, -31100, -30076, -29052, -28028, -27004, -25980, -24956,
     -23932, -22908, -21884, -20860, -19836, -18812, -17788, -16764,
     -15996, -15484, -14972, -14460, -13948, -13436, -12924, -12412,
     -11900, -11388, -10876, -10364, -9852, -9340, -8828, -8316,
     -7932, -7676, -7420, -7164, -6908, -6652, -6396, -6140,
     -5884, -5628, -5372, -5116, -4860, -4604, -4348, -4092,
     -3900, -3772, -3644, -3516, -3388, -3260, -3132, -3004,
     -2876, -2748, -2620, -2492, -2364, -2236, -2108, -1980,
     -1884, -1820, -1756, -1692, -1628, -1564, -1500, -1436,
     -1372, -1308, -1244, -1180, -1116, -1052, -988, -924,
     -876, -844, -812, -780, -748, -716, -684, -652,
     -620, -588, -556, -524, -492, -460, -428, -396,
     -372, -356, -340, -324, -308, -292, -276, -260,
     -244, -228, -212, -196, -180, -164, -148, -132,
     -120, -112, -104, -96, -88, -80, -72, -64,
     -56, -48, -40, -32, -24, -16, -8, 0,
     32124, 31100, 30076, 29052, 28028, 27004, 25980, 24956,
     23932, 22908, 21884, 20860, 19836, 18812, 17788, 16764,
     15996, 15484, 14972, 14460, 13948, 13436, 12924, 12412,
     11900, 11388, 10876, 10364, 9852, 9340, 8828, 8316,
     7932, 7676, 7420, 7164, 6908, 6652, 6396, 6140,
     5884, 5628, 5372, 5116, 4860, 4604, 4348, 4092,
     3900, 3772, 3644, 3516, 3388, 3260, 3132, 3004,
     2876, 2748, 2620, 2492, 2364, 2236, 2108, 1980,
     1884, 1820, 1756, 1692, 1628, 1564, 1500, 1436,
     1372, 1308, 1244, 1180, 1116, 1052, 988, 924,
     876, 844, 812, 780, 748, 716, 684, 652,
     620, 588, 556, 524, 492, 460, 428, 396,
     372, 356, 340, 324, 308, 292, 276, 260,
     244, 228, 212, 196, 180, 164, 148, 132,
     120, 112, 104, 96, 88, 80, 72, 64,
     56, 48, 40, 32, 24, 16, 8, 0
  >>

\* pcmBuffer[i] = decodeMuLaw(buffer[i]); return Buffer.from(pcmBuffer.buffer)
mulawToPcm(buffer) ==
  BufferFromInt16([i \in 1..Len(buffer) |-> ToInt16(decodeMuLaw(buffer[i]))])

\* mulaw[i] = encodeMuLaw(pcm[i]) into a Uint8Array
pcmToMulaw(buffer) ==
  LET pcm == Int16View(buffer)
  IN  [i \in 1..Len(pcm) |-> ToUint8(encodeMuLaw(pcm[i]))]

(***************************************************************************)
(* Sample-rate converters                                                  *)
(***************************************************************************)
\* Mutation: the decoded buffer is passed on at 8 kHz.
upsampleTo16kSkipped(buffer) == buffer
\* part_004, part_001: output[2i] = output[2i+1] = input[i]
upsampleTo16k(buffer) ==
  LET input == Int16View(buffer)
  IN  BufferFromInt16([k \in 1..(2 * Len(input)) |-> input[(k + 1) \div 2]])

\* part_003: output[2i+1] = Math.round((current + next) / 2)
upsampleTo16kRound(buffer) ==
  LET input == Int16View(buffer)
      n     == Len(input)
      next(i) == IF i < n THEN input[i + 1] ELSE input[i]
  IN  BufferFromInt16([k \in 1..(2 * n) |->
        LET i == (k + 1) \div 2
        IN  IF k % 2 = 1 THEN input[i]
            ELSE ToInt16((input[i] + next(i) + 1) \div 2)])

\* part_000: output[2i+1] = Math.floor((current + next) / 2)
upsample8kTo16k(buffer) ==
  LET input == Int16View(buffer)
      n     == Len(input)
      next(i) == IF i < n THEN input[i + 1] ELSE input[i]
  IN  BufferFromInt16([k \in 1..(2 * n) |->
        LET i == (k + 1) \div 2
        IN  IF k % 2 = 1 THEN input[i]
            ELSE ToInt16((input[i] + next(i)) \div 2)])

\* server.js: position = i / ratio, b = input[index + 1] || a,
\* output[i] = Math.round(a + (b - a) * fraction).  The rates are integers
\* and position is the exact fraction i * fromRate / toRate.
upsampleLinear(inputBuffer, fromRate, toRate) ==
  LET input     == Int16View(inputBuffer)
      n         == Len(input)
      newLength == (2 * n * toRate + fromRate) \div (2 * fromRate)
  IN  BufferFromInt16([k \in 1..newLength |->
        LET i     == k - 1
            index == (i * fromRate) \div toRate
            num   == (i * fromRate) % toRate
            a     == IF index < n THEN input[index + 1] ELSE 0
            nxt   == IF index + 1 < n THEN input[index + 2] ELSE 0
            b     == IF nxt = 0 THEN a ELSE nxt
        IN  ToInt16((2 * a * toRate + 2 * (b - a) * num + toRate)
                      \div (2 * toRate))])

\* server.js: newLength = Math.round(input.length / ratio),
\* output[i] = input[Math.floor(i * ratio)]
downsampleLinear(inputBuffer, fromRate, toRate) ==
  LET input     == Int16View(inputBuffer)
      n         == Len(input)
      newLength == (2 * n * toRate + fromRate) \div (2 * fromRate)
  IN  BufferFromInt16([k \in 1..newLength |->
        LET index == ((k - 1) * fromRate) \div toRate
        IN  IF index < n THEN input[index + 1] ELSE 0])

\* Mutation: the decimator starts one sample late.
downsampleTo8kOffset(buffer) ==
  LET input == Int16View(buffer)
  IN  BufferFromInt16([k \in 1..(Len(input) \div 3) |-> input[3 * (k - 1) + 2]])
\* downsampleTo8k / downsample24kTo8k: output[i] = input[i * 3]
downsampleTo8k(buffer) ==
  LET input == Int16View(buffer)
  IN  BufferFromInt16([k \in 1..(Len(input) \div 3) |-> input[3 * (k - 1) + 1]])

\* server.js convertMulaw8kToPcm16k (second handler): decode, then
\* interpolate with Math.round
convertMulaw8kToPcm16kRound(mulawBuffer) ==
  LET pcm8k == [i \in 1..Len(mulawBuffer) |-> ToInt16(decodeMuLaw(mulawBuffer[i]))]
      n     == Len(pcm8k)
      next(i) == IF i < n THEN pcm8k[i + 1] ELSE pcm8k[i]
  IN  BufferFromInt16([k \in 1..(2 * n) |->
        LET i == (k + 1) \div 2
        IN  IF k % 2 = 1 THEN pcm8k[i]
            ELSE ToInt16((pcm8k[i] + next(i) + 1) \div 2)])

\* server.js convertMulaw8kToPcm16k (third handler): decode, then double
convertMulaw8kToPcm16k(mulawBuffer) ==
  LET pcm8k == [i \in 1..Len(mulawBuffer) |-> ToInt16(decodeMuLaw(mulawBuffer[i]))]
  IN  BufferFromInt16([k \in 1..(2 * Len(pcm8k)) |-> pcm8k[(k + 1) \div 2]])

\* part_002 mulaw8kToPcm16k: MU_LAW_TABLE[mulaw[i] ^ 0xff], then double
mulaw8kToPcm16k(mulaw) ==
  LET pcm8k == [i \in 1..Len(mulaw) |-> ToInt16(MU_LAW_TABLE[(255 - mulaw[i]) + 1])]
  IN  BufferFromInt16([k \in 1..(2 * Len(pcm8k)) |-> pcm8k[(k + 1) \div 2]])

\* part_003 (second program) mulaw8kToPcm16k: its MU_LAW_TABLE is the empty
\* array, every lookup is undefined and the Int16Array store makes it 0.
mulaw8kToPcm16kEmptyTable(mulaw) ==
  BufferFromInt16([k \in 1..(2 * Len(mulaw)) |-> 0])

\* convertPcm24kToMulaw8k / pcm24kToMulaw8k: mulaw[i] = encodeMuLaw(pcm[i*3])
pcm24kToMulaw8k(pcm24k) ==
  LET pcm == Int16View(pcm24k)
  IN  [i \in 1..(Len(pcm) \div 3) |-> ToUint8(encodeMuLaw(pcm[3 * (i - 1) + 1]))]

\* part_003 volume boost: pcm8k is the Buffer mulawToPcm returned, so the
\* loop runs over its bytes: val = pcm8k[i] * 3, clamped to the int16 range
\* and stored back into the byte.
VolumeBoost(pcm8k) ==
  [i \in 1..Len(pcm8k) |->
      LET val  == pcm8k[i] * 3
          hi   == IF val > 32767 THEN 32767 ELSE val
          lo   == IF hi < -32768 THEN -32768 ELSE hi
      IN  ToUint8(lo)]

(***************************************************************************)
(* Handler revisions and what distinguishes them                           *)
(***************************************************************************)
Variants ==
  {"part_000", "part_001", "part_002", "part_003a", "part_003b",
   "part_004", "server_1", "server_2", "server_3"}

\* let streamSid = null (undefined in part_002, part_003b): not bound
NULL == "null"

\* The open handler sends the greeting right after the setup message.
GreetingOnOpen(v) ==
  v \in {"part_000", "part_003a", "part_004", "server_1", "server_3"}

\* A flag set on setupComplete gates the uplink (geminiReady, isSessionActive).
ReadinessGated(v) == v \in {"part_002", "part_003b", "server_2"}

\* Mutation: no media branch looks at the socket's readyState.
ChecksSocketNever(v) == FALSE
\* The media branch tests geminiWs.readyState === WebSocket.OPEN.
ChecksSocketOpen(v) == v # "part_003b"

\* The audio-peer message handler has an interruption branch that sends clear.
ClearsOnInterrupt(v) == v \in {"part_000", "part_003a", "part_004"}

\* geminiWs.on('error', ...) is registered.
HasErrorHandler(v) == v \notin {"part_000", "part_003a", "server_1"}

BUFFER_SIZE == 5

(***************************************************************************)
(* Transcoding pipelines, per handler revision                             *)
(***************************************************************************)
\* Telephony media payload -> PCM sent to the audio peer (the batching
\* revision applies it to the concatenated batch).
Uplink(v, mulaw) ==
  CASE v = "part_000"  -> upsample8kTo16k(mulawToPcm(mulaw))
    [] v = "part_001"  -> upsampleTo16k(mulawToPcm(mulaw))
    [] v = "part_002"  -> mulaw8kToPcm16k(mulaw)
    [] v = "part_003b" -> mulaw8kToPcm16kEmptyTable(mulaw)
    [] v = "part_004"  -> upsampleTo16k(mulawToPcm(mulaw))
    [] v = "server_1"  -> upsampleLinear(mulawToPcm(mulaw), 8000, 16000)
    [] v = "server_2"  -> convertMulaw8kToPcm16kRound(mulaw)
    [] v = "server_3"  -> convertMulaw8kToPcm16k(mulaw)
    [] v = "part_003a" -> upsampleTo16kRound(VolumeBoost(mulawToPcm(mulaw)))

\* Audio part data from the audio peer -> telephony media payload.
Downlink(v, pcm24k) ==
  CASE v \in {"part_002", "part_003b", "server_2", "server_3"}
                       -> pcm24kToMulaw8k(pcm24k)
    [] v = "server_1"  -> pcmToMulaw(downsampleLinear(pcm24k, 24000, 8000))
    [] OTHER           -> pcmToMulaw(downsampleTo8k(pcm24k))

\* server.js second handler: sum += Math.abs(pcm16k[i]) over the Buffer's
\* bytes, averageVolume = sum / pcm16k.length; the chunk is dropped when
\* averageVolume < 20 (0 / 0 is NaN and NaN < 20 is false).
RECURSIVE SumSeq(_)
SumSeq(q) == IF q = <<>> THEN 0 ELSE Head(q) + SumSeq(Tail(q))

BelowVolumeGate(pcm16k) ==
  Len(pcm16k) > 0 /\ SumSeq(pcm16k) < 20 * Len(pcm16k)

\* Mutation: only the arriving chunk is sent, the buffered ones are lost.
ConcatNewest(bufs) == IF bufs = <<>> THEN <<>> ELSE bufs[Len(bufs)]
RECURSIVE Concat(_)
Concat(bufs) == IF bufs = <<>> THEN <<>> ELSE Head(bufs) \o Concat(Tail(bufs))

(***************************************************************************)
(* Inputs                                                                  *)
(***************************************************************************)
Sids == {"CA1", "CA2"}

\* base64-decoded payloads of telephony media frames (mu-law bytes)
MulawPayloads == { <<255, 0>>, <<129>> }

\* base64-decoded data of audio parts (24 kHz PCM bytes): three samples
\* (1000, -5, 7) followed by a stray byte
PcmPayloads == { <<232, 3, 251, 255, 7, 0, 9>> }

\* A part of modelTurn.parts: inlineData with an audio/pcm mimeType, or text.
Parts ==
  [kind : {"audio"}, data : PcmPayloads] \cup [kind : {"text"}, data : {<<>>}]

PartSeqs == UNION {[1..n -> Parts] : n \in 0..MaxParts}

\* Well-formed audio-peer messages.  interrupted, turnComplete and modelTurn
\* live under serverContent; parts under modelTurn.  A message that reports
\* an error carries no serverContent, and neither does the setupComplete
\* acknowledgement (the peer's messages carry one of the two).
GeminiMsgs ==
  {m \in [setupComplete : BOOLEAN, error : BOOLEAN, serverContent : BOOLEAN,
          modelTurn : BOOLEAN, interrupted : BOOLEAN, turnComplete : BOOLEAN,
          parts : PartSeqs] :
     /\ (~m.serverContent) => (~m.modelTurn /\ ~m.interrupted /\ ~m.turnComplete)
     /\ (~m.modelTurn) => m.parts = <<>>
     /\ m.error => ~m.serverContent
     /\ m.setupComplete => ~m.serverContent}

\* Audio-peer messages with a required field missing: a part whose
\* inlineData has no mimeType, coming after the parts in before, or a
\* modelTurn with no parts array.
MissingFieldMsgs ==
  {m \in [missing : {"mimeType", "parts"},
          before : {<<>>} \cup {<< [kind |-> "audio", data |-> d] >> : d \in PcmPayloads},
          setupComplete : BOOLEAN, interrupted : BOOLEAN] :
     (m.missing = "parts") => (m.before = <<>>)}

(***************************************************************************)
(* State                                                                   *)
(***************************************************************************)
VARIABLES
  variant,           \* which handler revision serves this session
  streamSid,         \* let streamSid
  geminiReady,       \* geminiReady / isSessionActive
  isAiSpeaking,      \* part_000's echo flag
  audioBuffer,       \* part_003's batching buffer: sequence of chunks
  gemState,          \* geminiWs.readyState
  abortPending,      \* close() was called while CONNECTING: 'error' is due
  twState,           \* the telephony socket: OPEN or CLOSED
  crashed,           \* an exception left a listener: the process is gone
  sentGemini,        \* frames the last handler passed to geminiWs.send
  sentTwilio,        \* frames the last handler passed to connection.socket.send
  lastEvent,         \* the event the last handler processed
  setupCompleteSeen, \* history: a message with setupComplete was processed
  stopSeen,          \* history: a stop frame was processed
  setupSent,         \* history: the 'open' listener has sent the setup message
  greetingCount,     \* history: greeting messages passed to geminiWs.send so far
  other,             \* a second session served by the same process
  calc               \* a conversion function under test: input, value, steps

vars == <<variant, streamSid, geminiReady, isAiSpeaking, audioBuffer, gemState,
          abortPending, twState, crashed, sentGemini, sentTwilio, lastEvent,
          setupCompleteSeen, stopSeen, setupSent, greetingCount, other, calc>>

Event(kind) ==
  [kind |-> kind, sid |-> NULL, payload |-> <<>>, setupComplete |-> FALSE,
   interrupted |-> FALSE, turnComplete |-> FALSE, audioParts |-> 0]

SetupMsg          == [kind |-> "setup", data |-> <<>>]
GreetingMsg       == [kind |-> "greeting", data |-> <<>>]
AudioMsg(pcm16k)  == [kind |-> "audio", data |-> pcm16k]
MediaFrame(sid, mulaw) == [event |-> "media", streamSid |-> sid, payload |-> mulaw]
ClearFrame(sid)   == [event |-> "clear", streamSid |-> sid, payload |-> <<>>]

\* The closure variables of a session whose handler has just been installed.
FreshSession ==
  [streamSid |-> NULL, geminiReady |-> FALSE, isAiSpeaking |-> FALSE,
   audioBuffer |-> <<>>, gemState |-> "CONNECTING", twState |-> "OPEN",
   sentGemini |-> <<>>, sentTwilio |-> <<>>]

\* No conversion is under test while a session runs.
CalcIdle == [kind |-> "idle", input |-> <<>>, val |-> <<>>, steps |-> <<>>]

SessionInit ==
  /\ variant \in Variants
  /\ streamSid = NULL
  /\ geminiReady = FALSE
  /\ isAiSpeaking = FALSE
  /\ audioBuffer = <<>>
  /\ gemState = "CONNECTING"
  /\ abortPending = FALSE
  /\ twState = "OPEN"
  /\ crashed = FALSE
  /\ sentGemini = <<>>
  /\ sentTwilio = <<>>
  /\ lastEvent = Event("init")
  /\ setupCompleteSeen = FALSE
  /\ stopSeen = FALSE
  /\ setupSent = FALSE
  /\ greetingCount = 0

Init ==
  /\ SessionInit
  /\ other = FreshSession
  /\ calc = CalcIdle

(***************************************************************************)
(* Pieces of the handlers                                                  *)
(***************************************************************************)
\* Mutation: close() that only acts on an open socket.
CloseGeminiIfOpen(state) ==
  IF state = "OPEN" THEN "CLOSING" ELSE state

\* geminiWs.close(): readyState after the call
CloseGemini(state) ==
  CASE state = "CONNECTING" -> "CLOSING"
    [] state = "OPEN"       -> "CLOSING"
    [] OTHER                -> state

\* start branch: streamSid = data.start.streamSid
BindStreamSid(current, sid) == sid

\* Mutation: the media branch forgets the readiness flag.
UplinkGateSocketOnly(v, state, ready, speaking) ==
  /\ ChecksSocketOpen(v) => state = "OPEN"
  /\ (v = "part_000") => ~speaking

\* Mutation: the media branch does not look at the socket's readyState.
UplinkGateNoSocket(v, state, ready, speaking) ==
  /\ ReadinessGated(v) => ready
  /\ (v = "part_000") => ~speaking

\* The conditions under which the media branch goes on to transcode.
UplinkGate(v, state, ready, speaking) ==
  /\ ChecksSocketOpen(v) => state = "OPEN"
  /\ ReadinessGated(v) => ready
  /\ (v = "part_000") => ~speaking

AudioParts(msg) == SelectSeq(msg.parts, LAMBDA part : part.kind = "audio")

\* Mutation: media frames are sent without the if (streamSid) test.
MediaFramesUnbound(v, sid, msg) ==
  IF msg.serverContent /\ msg.modelTurn
  THEN [i \in 1..Len(AudioParts(msg)) |->
          MediaFrame(sid, Downlink(v, AudioParts(msg)[i].data))]
  ELSE <<>>

\* parts.forEach(part => { if audio part and streamSid: send media })
MediaFrames(v, sid, msg) ==
  IF msg.serverContent /\ msg.modelTurn /\ sid # NULL
  THEN [i \in 1..Len(AudioParts(msg)) |->
          MediaFrame(sid, Downlink(v, AudioParts(msg)[i].data))]
  ELSE <<>>

\* Mutation: the clear frame is sent without the if (streamSid) test.
ClearFramesUnbound(v, sid, msg) ==
  IF ClearsOnInterrupt(v) /\ msg.serverContent /\ msg.interrupted
  THEN << ClearFrame(sid) >>
  ELSE <<>>

\* if (serverContent.interrupted) { if (streamSid) send clear }
ClearFrames(v, sid, msg) ==
  IF ClearsOnInterrupt(v) /\ msg.serverContent /\ msg.interrupted /\ sid # NULL
  THEN << ClearFrame(sid) >>
  ELSE <<>>

\* The frames one audio-peer message makes the handler send to the
\* telephony socket, in the order of the send calls.
DownlinkFrames(v, sid, msg) == MediaFrames(v, sid, msg) \o ClearFrames(v, sid, msg)

\* Mutation: the turnComplete branch does not reset the flag.
SpeakingAfterNoTurnComplete(v, sid, speaking, msg) ==
  IF v # "part_000" THEN speaking
  ELSE IF msg.serverContent /\ msg.interrupted THEN FALSE
  ELSE IF MediaFrames(v, sid, msg) # <<>> THEN TRUE
  ELSE speaking
\* part_000: isAiSpeaking after the message
SpeakingAfter(v, sid, speaking, msg) ==
  IF v # "part_000" THEN speaking
  ELSE IF msg.serverContent /\ (msg.interrupted \/ msg.turnComplete) THEN FALSE
  ELSE IF MediaFrames(v, sid, msg) # <<>> THEN TRUE
  ELSE speaking

\* part_002 / part_003b return before looking at the parts
ReturnsEarly(v, ready, msg) ==
  \/ v = "part_002" /\ msg.error
  \/ v \in {"part_002", "part_003b"} /\ msg.setupComplete /\ ~ready

\* the readiness flag after the message
ReadyAfter(v, ready, msg) ==
  CASE v = "part_002"  -> ready \/ (msg.setupComplete /\ ~msg.error)
    [] v = "part_003b" -> ready \/ msg.setupComplete
    [] v = "server_2"  -> ready \/ msg.setupComplete
    [] OTHER           -> ready

\* Whether the missing field makes the listener throw.  modelTurn.parts
\* .forEach throws on a missing parts array where serverContent?.modelTurn
\* ?.parts does not; part.inlineData.mimeType.startsWith throws on a missing
\* mimeType where part.inlineData?.mimeType?.startsWith does not.
ThrowsOnMissingField(v, m) ==
  IF m.missing = "parts"
  THEN v \in {"part_000", "part_001", "part_003a", "part_004", "server_1"}
  ELSE v \notin {"part_002", "part_003b"}

\* What the listener has processed of such a message: the parts before the
\* incomplete one (which is skipped or throws), the setupComplete branch
\* that precedes the parts loop, and the interruption branch only if the
\* loop did not throw.
ProcessedPrefix(v, m) ==
  [setupComplete |-> m.setupComplete, error |-> FALSE, serverContent |-> TRUE,
   modelTurn |-> TRUE,
   interrupted |-> m.interrupted /\ ~ThrowsOnMissingField(v, m),
   turnComplete |-> FALSE, parts |-> m.before]

\* Whether an exception thrown while a frame is processed is caught inside
\* the listener (try/catch around the whole body) or leaves it.
TwilioHandlerCatches(v) == v \notin {"part_001", "part_002", "part_003b"}

\* Mutation: no try/catch around the audio-peer listener's body.
GeminiHandlerUncaught(v) == FALSE
GeminiHandlerCatches(v) == v \notin {"part_002", "part_003b"}

\* Telephony frames that make the listener throw: text that JSON.parse
\* rejects, a start frame with no start object, a media frame with no media
\* object.  The media read happens only behind the forwarding condition.
TwilioMalformedKinds == {"twilioUnparseable", "startNoField", "mediaNoField"}

TwilioThrows(v, kind, state, ready, speaking) ==
  \/ kind = "twilioUnparseable"
  \/ kind = "startNoField"
  \/ kind = "mediaNoField" /\ UplinkGate(v, state, ready, speaking)

\* What a handler of this session does to another session: every variable a
\* handler writes is declared inside the connection callback.
\* Mutation: streamSid declared at module level, one variable for all sessions.
OtherSharesStreamSid(o, event) ==
  IF event.kind = "start" THEN [o EXCEPT !.streamSid = event.sid] ELSE o
OtherAfterHandler(o, event) == o

\* An uncaught exception ends the process and with it every session.
OtherAfterCrash(o) == [o EXCEPT !.gemState = "CLOSED", !.twState = "CLOSED"]

OtherSession ==
  other' = IF crashed' THEN OtherAfterCrash(other)
           ELSE OtherAfterHandler(other, lastEvent')

\* history: the greetings among the frames the handler passed to geminiWs.send
GreetingHistory ==
  LET sent == Len(SelectSeq(sentGemini', LAMBDA m : m.kind = "greeting"))
  IN  greetingCount' = IF greetingCount + sent > MaxGreetings
                       THEN MaxGreetings ELSE greetingCount + sent

Crash ==
  /\ crashed' = TRUE
  /\ gemState' = "CLOSED"
  /\ twState' = "CLOSED"
  /\ abortPending' = FALSE

(***************************************************************************)
(* Telephony socket: connection.socket.on('message')                       *)
(***************************************************************************)
TwilioStart(sid) ==
  /\ ~crashed /\ twState = "OPEN"
  /\ streamSid' = BindStreamSid(streamSid, sid)
  /\ sentGemini' = IF variant = "part_001" /\ gemState = "OPEN"
                   THEN << GreetingMsg >> ELSE <<>>
  /\ sentTwilio' = <<>>
  /\ lastEvent' = [Event("start") EXCEPT !.sid = sid]
  /\ UNCHANGED <<calc, setupSent, variant, geminiReady, isAiSpeaking, audioBuffer, gemState,
                 abortPending, twState, crashed, setupCompleteSeen, stopSeen>>
  /\ OtherSession
  /\ GreetingHistory

TwilioMedia(payload) ==
  /\ ~crashed /\ twState = "OPEN"
  /\ IF ~UplinkGate(variant, gemState, geminiReady, isAiSpeaking)
     THEN /\ sentGemini' = <<>>
          /\ audioBuffer' = audioBuffer
     ELSE IF variant = "part_003a"
     THEN LET pushed == Append(audioBuffer, payload)
          IN  IF Len(pushed) >= BUFFER_SIZE
              THEN /\ sentGemini' = << AudioMsg(Uplink(variant, Concat(pushed))) >>
                   /\ audioBuffer' = <<>>
              ELSE /\ sentGemini' = <<>>
                   /\ audioBuffer' = pushed
     ELSE /\ audioBuffer' = audioBuffer
          /\ sentGemini' =
               IF variant = "server_2" /\ BelowVolumeGate(Uplink(variant, payload))
               THEN <<>>
               ELSE << AudioMsg(Uplink(variant, payload)) >>
  /\ sentTwilio' = <<>>
  /\ lastEvent' = [Event("media") EXCEPT !.payload = payload]
  /\ UNCHANGED <<calc, setupSent, variant, streamSid, geminiReady, isAiSpeaking, gemState,
                 abortPending, twState, crashed, setupCompleteSeen, stopSeen>>
  /\ OtherSession
  /\ GreetingHistory

TwilioStop ==
  /\ ~crashed /\ twState = "OPEN"
  /\ gemState' = CloseGemini(gemState)
  /\ abortPending' = (abortPending \/ gemState = "CONNECTING")
  /\ stopSeen' = TRUE
  /\ sentGemini' = <<>>
  /\ sentTwilio' = <<>>
  /\ lastEvent' = Event("stop")
  /\ UNCHANGED <<calc, setupSent, variant, streamSid, geminiReady, isAiSpeaking, audioBuffer,
                 twState, crashed, setupCompleteSeen>>
  /\ OtherSession
  /\ GreetingHistory

\* Mutation: a frame with any other event is taken for the stop frame.
TwilioOtherAsStop ==
  /\ ~crashed /\ twState = "OPEN"
  /\ gemState' = CloseGemini(gemState)
  /\ abortPending' = (abortPending \/ gemState = "CONNECTING")
  /\ sentGemini' = <<>>
  /\ sentTwilio' = <<>>
  /\ lastEvent' = Event("other")
  /\ UNCHANGED <<calc, setupSent, variant, streamSid, geminiReady, isAiSpeaking, audioBuffer,
                 twState, crashed, setupCompleteSeen, stopSeen>>
  /\ OtherSession
  /\ GreetingHistory

\* a frame whose event is none of start, media, stop (connected, mark, dtmf)
TwilioOther ==
  /\ ~crashed /\ twState = "OPEN"
  /\ sentGemini' = <<>>
  /\ sentTwilio' = <<>>
  /\ lastEvent' = Event("other")
  /\ UNCHANGED <<calc, setupSent, variant, streamSid, geminiReady, isAiSpeaking, audioBuffer,
                 gemState, abortPending, twState, crashed, setupCompleteSeen,
                 stopSeen>>
  /\ OtherSession
  /\ GreetingHistory

\* A malformed telephony frame.  A caught exception is logged and the frame
\* is dropped before any assignment or send; an uncaught one ends the process.
TwilioMalformed(kind) ==
  /\ ~crashed /\ twState = "OPEN"
  /\ IF /\ TwilioThrows(variant, kind, gemState, geminiReady, isAiSpeaking)
        /\ ~TwilioHandlerCatches(variant)
     THEN Crash
     ELSE UNCHANGED <<gemState, abortPending, twState, crashed>>
  /\ sentGemini' = <<>>
  /\ sentTwilio' = <<>>
  /\ lastEvent' = Event(kind)
  /\ UNCHANGED <<calc, setupSent, variant, streamSid, geminiReady, isAiSpeaking, audioBuffer,
                 setupCompleteSeen, stopSeen>>
  /\ OtherSession
  /\ GreetingHistory

\* The telephony socket closes or errors.  No revision registers a 'close'
\* or 'error' listener on connection.socket.
TwilioClose ==
  /\ ~crashed /\ twState = "OPEN"
  /\ twState' = "CLOSED"
  /\ sentGemini' = <<>>
  /\ sentTwilio' = <<>>
  /\ lastEvent' = Event("twilioClose")
  /\ UNCHANGED <<calc, setupSent, variant, streamSid, geminiReady, isAiSpeaking, audioBuffer,
                 gemState, abortPending, crashed, setupCompleteSeen, stopSeen>>
  /\ OtherSession
  /\ GreetingHistory

(***************************************************************************)
(* Audio-peer socket: geminiWs.on('open' | 'message' | 'close' | 'error')  *)
(***************************************************************************)
GeminiOpen ==
  /\ ~crashed /\ gemState = "CONNECTING"
  /\ gemState' = "OPEN"
  /\ sentGemini' = IF GreetingOnOpen(variant)
                   THEN << SetupMsg, GreetingMsg >> ELSE << SetupMsg >>
  /\ sentTwilio' = <<>>
  /\ lastEvent' = Event("geminiOpen")
  /\ setupSent' = TRUE
  /\ UNCHANGED <<calc, variant, streamSid, geminiReady, isAiSpeaking, audioBuffer,
                 abortPending, twState, crashed, setupCompleteSeen, stopSeen>>
  /\ OtherSession
  /\ GreetingHistory

GeminiMessage(msg) ==
  /\ ~crashed
  /\ gemState = "OPEN" \/ (gemState = "CLOSING" /\ ~abortPending)
  /\ geminiReady' = ReadyAfter(variant, geminiReady, msg)
  /\ sentGemini' = IF variant = "server_2" /\ msg.setupComplete
                   THEN << GreetingMsg >> ELSE <<>>
  /\ IF ReturnsEarly(variant, geminiReady, msg)
     THEN /\ sentTwilio' = <<>>
          /\ isAiSpeaking' = isAiSpeaking
     ELSE /\ sentTwilio' = DownlinkFrames(variant, streamSid, msg)
          /\ isAiSpeaking' = SpeakingAfter(variant, streamSid, isAiSpeaking, msg)
  /\ setupCompleteSeen' = (setupCompleteSeen \/ msg.setupComplete)
  /\ lastEvent' = [Event("geminiMessage") EXCEPT
                     !.setupComplete = msg.setupComplete,
                     !.interrupted = msg.serverContent /\ msg.interrupted,
                     !.turnComplete = msg.serverContent /\ msg.turnComplete,
                     !.audioParts = Len(AudioParts(msg))]
  /\ UNCHANGED <<calc, setupSent, variant, streamSid, audioBuffer, gemState, abortPending,
                 twState, crashed, stopSeen>>
  /\ OtherSession
  /\ GreetingHistory

\* An audio-peer message with a missing field.  Every listener that throws
\* on it has try/catch; what ran before the throw stays done.
GeminiMissingField(m) ==
  LET msg == ProcessedPrefix(variant, m)
  IN  /\ ~crashed
      /\ gemState = "OPEN" \/ (gemState = "CLOSING" /\ ~abortPending)
      /\ geminiReady' = ReadyAfter(variant, geminiReady, msg)
      /\ sentGemini' = IF variant = "server_2" /\ msg.setupComplete
                       THEN << GreetingMsg >> ELSE <<>>
      /\ IF ReturnsEarly(variant, geminiReady, msg)
         THEN /\ sentTwilio' = <<>>
              /\ isAiSpeaking' = isAiSpeaking
         ELSE /\ sentTwilio' = DownlinkFrames(variant, streamSid, msg)
              /\ isAiSpeaking' = SpeakingAfter(variant, streamSid, isAiSpeaking, msg)
      /\ setupCompleteSeen' = (setupCompleteSeen \/ m.setupComplete)
      /\ lastEvent' = [Event("geminiMissingField") EXCEPT
                         !.setupComplete = m.setupComplete,
                         !.interrupted = m.interrupted,
                         !.audioParts = Len(m.before)]
      /\ UNCHANGED <<calc, setupSent, variant, streamSid, audioBuffer, gemState,
                     abortPending, twState, crashed, stopSeen>>
      /\ OtherSession
      /\ GreetingHistory

\* An audio-peer frame that JSON.parse rejects.
GeminiUnparseable ==
  /\ ~crashed
  /\ gemState = "OPEN" \/ (gemState = "CLOSING" /\ ~abortPending)
  /\ IF GeminiHandlerCatches(variant)
     THEN UNCHANGED <<gemState, abortPending, twState, crashed>>
     ELSE Crash
  /\ sentGemini' = <<>>
  /\ sentTwilio' = <<>>
  /\ lastEvent' = Event("geminiUnparseable")
  /\ UNCHANGED <<calc, setupSent, variant, streamSid, geminiReady, isAiSpeaking, audioBuffer,
                 setupCompleteSeen, stopSeen>>
  /\ OtherSession
  /\ GreetingHistory

\* The remote end closes the audio-peer socket: the 'close' listener logs.
GeminiRemoteClose ==
  /\ ~crashed /\ gemState = "OPEN"
  /\ gemState' = "CLOSED"
  /\ sentGemini' = <<>>
  /\ sentTwilio' = <<>>
  /\ lastEvent' = Event("geminiClose")
  /\ UNCHANGED <<calc, setupSent, variant, streamSid, geminiReady, isAiSpeaking, audioBuffer,
                 abortPending, twState, crashed, setupCompleteSeen, stopSeen>>
  /\ OtherSession
  /\ GreetingHistory

\* The audio-peer socket fails (handshake refused, transport error): ws emits
\* 'error' and then 'close'.  With no 'error' listener the emit throws.
GeminiError ==
  /\ ~crashed /\ gemState \in {"CONNECTING", "OPEN"}
  /\ IF HasErrorHandler(variant)
     THEN /\ gemState' = "CLOSED"
          /\ UNCHANGED <<abortPending, twState, crashed>>
     ELSE Crash
  /\ sentGemini' = <<>>
  /\ sentTwilio' = <<>>
  /\ lastEvent' = Event("geminiError")
  /\ UNCHANGED <<calc, setupSent, variant, streamSid, geminiReady, isAiSpeaking, audioBuffer,
                 setupCompleteSeen, stopSeen>>
  /\ OtherSession
  /\ GreetingHistory

\* The close that geminiWs.close() started completes.  After a close() in
\* CONNECTING the aborted handshake first emits 'error'.
GeminiCloseDone ==
  /\ ~crashed /\ gemState = "CLOSING"
  /\ IF abortPending /\ ~HasErrorHandler(variant)
     THEN Crash
     ELSE /\ gemState' = "CLOSED"
          /\ abortPending' = FALSE
          /\ UNCHANGED <<twState, crashed>>
  /\ sentGemini' = <<>>
  /\ sentTwilio' = <<>>
  /\ lastEvent' = Event("geminiCloseDone")
  /\ UNCHANGED <<calc, setupSent, variant, streamSid, geminiReady, isAiSpeaking, audioBuffer,
                 setupCompleteSeen, stopSeen>>
  /\ OtherSession
  /\ GreetingHistory

Next ==
  \/ \E sid \in Sids : TwilioStart(sid)
  \/ \E payload \in MulawPayloads : TwilioMedia(payload)
  \/ TwilioStop
  \/ TwilioOther
  \/ \E kind \in TwilioMalformedKinds : TwilioMalformed(kind)
  \/ TwilioClose
  \/ GeminiOpen
  \/ \E msg \in GeminiMsgs : GeminiMessage(msg)
  \/ \E m \in MissingFieldMsgs : GeminiMissingField(m)
  \/ GeminiUnparseable
  \/ GeminiRemoteClose
  \/ GeminiError
  \/ GeminiCloseDone

Spec == Init /\ [][Next]_vars

\* The close handshake that close() starts always completes (ws enforces a
\* close timeout); nothing else is scheduled by the program itself.
FairSpec == Spec /\ WF_vars(GeminiCloseDone)

\* Two sessions: the second one is at rest in a state its own frames can
\* bring it to (just connected; established with its flags set and, in the
\* batching revision, a chunk waiting in its buffer).
OtherSessions(v) ==
  LET established == [FreshSession EXCEPT !.streamSid = "CA2", !.gemState = "OPEN"]
  IN  { FreshSession,
        [established EXCEPT !.geminiReady = ReadinessGated(v),
                            !.isAiSpeaking = (v = "part_000"),
                            !.audioBuffer = IF v = "part_003a"
                                            THEN << <<129>> >> ELSE <<>>] }

TwoInit ==
  /\ SessionInit
  /\ other \in OtherSessions(variant)
  /\ calc = CalcIdle

TwoSpec == TwoInit /\ [][Next]_vars

(***************************************************************************)
(* The conversion functions on their own: an input is drawn, then the      *)
(* functions are applied to it one call at a time.                         *)
(***************************************************************************)
Int16Samples == -32768..32767
Bytes        == 0..255
SampleValues == {-32768, -1, 0, 1000, 32767}
Chunks       == UNION {[1..n -> SampleValues] : n \in 0..MaxSamples}
StrayBytes   == {9, 255}
\* the values of the decode table
TableValues  == {MU_LAW_TABLE[i] : i \in 1..Len(MU_LAW_TABLE)}

\* kind: what was drawn (one int16 sample, one companded byte, a PCM chunk
\* given as its samples, a PCM chunk with one more byte after them); val: the value the last call returned; steps: the
\* calls made so far.
CalcKinds == {"sample", "byte", "chunk", "oddChunk", "tableEntry"}

CalcInputs(kind) ==
  CASE kind = "sample" ->
         {[kind |-> "sample", input |-> <<x>>, val |-> <<x>>, steps |-> <<>>] :
             x \in Int16Samples}
    [] kind = "byte" ->
         {[kind |-> "byte", input |-> <<b>>, val |-> <<b>>, steps |-> <<>>] :
             b \in Bytes}
    [] kind = "chunk" ->
         {[kind |-> "chunk", input |-> q, val |-> BufferFromInt16(q),
           steps |-> <<>>] : q \in Chunks}
    [] kind = "oddChunk" ->
         {[kind |-> "oddChunk", input |-> q,
           val |-> BufferFromInt16(q) \o <<t>>,
           steps |-> <<>>] : q \in Chunks, t \in StrayBytes}
    [] kind = "tableEntry" ->
         {[kind |-> "tableEntry", input |-> <<v>>, val |-> <<v>>,
           steps |-> <<>>] : v \in TableValues}

sessionVars ==
  <<variant, streamSid, geminiReady, isAiSpeaking, audioBuffer, gemState,
    abortPending, twState, crashed, sentGemini, sentTwilio, lastEvent,
    setupCompleteSeen, stopSeen, setupSent, greetingCount, other>>

CodecInit ==
  /\ SessionInit
  /\ variant = "server_1"
  /\ other = FreshSession
  /\ \E kind \in CalcKinds : calc \in CalcInputs(kind)

CalcApply(kind, prior, name, result) ==
  /\ calc.kind = kind
  /\ calc.steps = prior
  /\ calc' = [calc EXCEPT !.val = result, !.steps = Append(prior, name)]
  /\ UNCHANGED sessionVars

\* mulaw[i] = encodeMuLaw(pcm[i]) on one sample, then decodeMuLaw on the byte
EncodeSample ==
  CalcApply("sample", <<>>, "encodeMuLaw",
            << ToUint8(encodeMuLaw(calc.val[1])) >>)
DecodeEncoded ==
  CalcApply("sample", <<"encodeMuLaw">>, "decodeMuLaw",
            << ToInt16(decodeMuLaw(calc.val[1])) >>)

\* pcmBuffer[i] = decodeMuLaw(buffer[i]) on one byte, then encodeMuLaw again
DecodeByte ==
  CalcApply("byte", <<>>, "decodeMuLaw",
            << ToInt16(decodeMuLaw(calc.val[1])) >>)
EncodeDecoded ==
  CalcApply("byte", <<"decodeMuLaw">>, "encodeMuLaw",
            << ToUint8(encodeMuLaw(calc.val[1])) >>)

CalcUpsampleLinear ==
  CalcApply("chunk", <<>>, "upsampleLinear",
            upsampleLinear(calc.val, 8000, 16000))
CalcDownsampleLinear ==
  CalcApply("chunk", <<>>, "downsampleLinear",
            downsampleLinear(calc.val, 24000, 8000))
CalcDownsampleTo8k ==
  CalcApply("chunk", <<>>, "downsampleTo8k", downsampleTo8k(calc.val))
CalcPcmToMulaw ==
  CalcApply("chunk", <<"downsampleTo8k">>, "pcmToMulaw", pcmToMulaw(calc.val))
CalcPcm24kToMulaw8k ==
  CalcApply("chunk", <<>>, "pcm24kToMulaw8k", pcm24kToMulaw8k(calc.val))

\* the downlink converters on a chunk of odd byte length
OddDownsampleTo8k ==
  CalcApply("oddChunk", <<>>, "downsampleTo8k", downsampleTo8k(calc.val))
OddPcmToMulaw ==
  CalcApply("oddChunk", <<"downsampleTo8k">>, "pcmToMulaw", pcmToMulaw(calc.val))
OddPcm24kToMulaw8k ==
  CalcApply("oddChunk", <<>>, "pcm24kToMulaw8k", pcm24kToMulaw8k(calc.val))

\* part_002: mulaw[i] = encodeMuLaw(v) on a value of the decode table, then
\* mulaw8kToPcm16k on that byte, read back as the samples it holds
EncodeTableEntry ==
  CalcApply("tableEntry", <<>>, "encodeMuLaw",
            << ToUint8(encodeMuLaw(calc.val[1])) >>)
DecodeByTable ==
  CalcApply("tableEntry", <<"encodeMuLaw">>, "mulaw8kToPcm16k",
            Int16View(mulaw8kToPcm16k(calc.val)))
\* part_002: mulaw8kToPcm16k on one byte
TableDecodeByte ==
  CalcApply("byte", <<>>, "mulaw8kToPcm16k",
            Int16View(mulaw8kToPcm16k(calc.val)))

\* part_003: pcm8k = mulawToPcm(combinedBuffer), then the volume boost loop
\* over pcm8k
CalcMulawToPcm ==
  CalcApply("byte", <<>>, "mulawToPcm", mulawToPcm(calc.val))
BoostDecoded ==
  CalcApply("byte", <<"mulawToPcm">>, "volumeBoost", VolumeBoost(calc.val))

CodecNext ==
  \/ EncodeSample
  \/ DecodeEncoded
  \/ DecodeByte
  \/ EncodeDecoded
  \/ CalcUpsampleLinear
  \/ CalcDownsampleLinear
  \/ CalcDownsampleTo8k
  \/ CalcPcmToMulaw
  \/ CalcPcm24kToMulaw8k
  \/ OddDownsampleTo8k
  \/ OddPcmToMulaw
  \/ OddPcm24kToMulaw8k
  \/ EncodeTableEntry
  \/ DecodeByTable
  \/ TableDecodeByte
  \/ CalcMulawToPcm
  \/ BoostDecoded

CodecSpec == CodecInit /\ [][CodecNext]_vars

TypeOK ==
  /\ variant \in Variants
  /\ streamSid \in Sids \cup {NULL}
  /\ geminiReady \in BOOLEAN /\ isAiSpeaking \in BOOLEAN
  /\ Len(audioBuffer) < BUFFER_SIZE
  /\ gemState \in {"CONNECTING", "OPEN", "CLOSING", "CLOSED"}
  /\ twState \in {"OPEN", "CLOSED"}
  /\ crashed \in BOOLEAN /\ abortPending \in BOOLEAN

(***************************************************************************)
(* Properties                                                              *)
(***************************************************************************)
AudioSent == SelectSeq(sentGemini, LAMBDA m : m.kind = "audio")
MediaSent == SelectSeq(sentTwilio, LAMBDA f : f.event = "media")
ClearSent == SelectSeq(sentTwilio, LAMBDA f : f.event = "clear")

\* C1: in the readiness-gated handlers (part_002, server.js second handler)
\* an audio message goes to the audio peer only after a setupComplete
\* message has been processed, and only as the single transcoding of the
\* media frame being handled: earlier frames are neither sent nor kept.
C1_UplinkWaitsForSetupComplete ==
  (variant \in {"part_002", "server_2"} /\ AudioSent # <<>>) =>
     /\ setupCompleteSeen
     /\ lastEvent.kind = "media"
     /\ sentGemini = << AudioMsg(Uplink(variant, lastEvent.payload)) >>

C1_Witness ==
  /\ variant \in {"part_002", "server_2"}
  /\ lastEvent.kind = "media"
  /\ setupCompleteSeen
  /\ AudioSent # <<>>

\* C2 (as claimed): in the handlers that gate the uplink on the socket being
\* open (server.js first handler, part_004) no audio message is sent to the
\* audio peer before a setupComplete message has been received.
C2_NoUplinkBeforeSetupComplete ==
  (variant \in {"server_1", "part_004"} /\ AudioSent # <<>>) => setupCompleteSeen

\* C3: every frame passed to the telephony socket carries the streamSid that
\* is bound when it is sent, none is sent while streamSid is unbound, and
\* frames come only from the audio-peer message being handled (at most one
\* media frame per audio part, at most one clear per interruption).
C3_TelephonyFramesCarryBoundSid ==
  /\ \A i \in 1..Len(sentTwilio) :
        streamSid # NULL /\ sentTwilio[i].streamSid = streamSid
  /\ sentTwilio # <<>> =>
        /\ lastEvent.kind \in {"geminiMessage", "geminiMissingField"}
        /\ Len(MediaSent) <= lastEvent.audioParts
        /\ Len(ClearSent) <= (IF lastEvent.interrupted THEN 1 ELSE 0)

C3_Witness ==
  /\ streamSid \in Sids
  /\ lastEvent.kind = "geminiMessage"
  /\ MediaSent # <<>>
  /\ ClearSent # <<>>

\* C4 (as claimed): once bound, streamSid never changes.
C4_StreamSidImmutable ==
  [][streamSid # NULL => streamSid' = streamSid]_vars

\* C5: processing a stop frame, in any session state, starts the close of
\* the audio-peer socket and passes no frame to the telephony socket.
C5_StopClosesAudioPeer ==
  lastEvent.kind = "stop" =>
     /\ gemState \in {"CLOSING", "CLOSED"}
     /\ sentTwilio = <<>>

\* stop with no prior start, before the audio-peer socket opened
C5_Witness ==
  /\ lastEvent.kind = "stop"
  /\ streamSid = NULL
  /\ abortPending
  /\ gemState = "CLOSING"

\* C6 (as claimed): when the telephony socket closes without a stop frame,
\* the audio-peer socket is eventually closing or closed.
C6_TelephonyCloseClosesAudioPeer ==
  (twState = "CLOSED" /\ ~stopSeen) ~> (gemState \in {"CLOSING", "CLOSED"})

\* C7 (as claimed): when the audio-peer socket is closed by the remote end
\* or reports an error, the telephony socket is eventually closed.
C7_AudioPeerCloseClosesTelephony ==
  (lastEvent.kind \in {"geminiClose", "geminiError"}) ~> (twState = "CLOSED")

\* C8: in part_000, part_003 (batching) and part_004 a message with
\* serverContent.interrupted sends exactly one clear frame with the bound
\* streamSid when streamSid is bound, and no clear frame when it is not.
C8_InterruptedSendsOneClear ==
  (/\ variant \in {"part_000", "part_003a", "part_004"}
   /\ lastEvent.kind = "geminiMessage"
   /\ lastEvent.interrupted) =>
     ClearSent = (IF streamSid # NULL THEN << ClearFrame(streamSid) >> ELSE <<>>)

C8_Witness ==
  /\ variant \in {"part_000", "part_003a", "part_004"}
  /\ lastEvent.kind = "geminiMessage"
  /\ lastEvent.interrupted
  /\ streamSid \in Sids
  /\ ClearSent = << ClearFrame(streamSid) >>

\* C9 (as claimed): in part_004 and part_000, while a message with
\* interrupted set is handled no media frame is sent before the clear frame.
C9_ClearPrecedesMedia ==
  (/\ variant \in {"part_004", "part_000"}
   /\ lastEvent.kind = "geminiMessage"
   /\ lastEvent.interrupted) =>
     \A i, j \in 1..Len(sentTwilio) :
        (sentTwilio[i].event = "media" /\ sentTwilio[j].event = "clear") => j < i

\* C10 (as claimed): in server.js (first handler) a message with
\* serverContent.interrupted, handled while streamSid is bound, sends a clear
\* frame with that streamSid.
C10_Server1SendsClear ==
  (/\ variant = "server_1"
   /\ lastEvent.kind = "geminiMessage"
   /\ lastEvent.interrupted
   /\ streamSid # NULL) =>
     \E i \in 1..Len(sentTwilio) : sentTwilio[i] = ClearFrame(streamSid)

\* C11: in the revisions whose listeners wrap their body in try/catch
\* (part_004, part_000, part_003 first program, the three of server.js) a
\* frame that is not parseable JSON, on either channel, changes no session
\* state and sends nothing, so the next frame meets the state it would
\* have met had the malformed frame never arrived.
C11_UnparseableFrameIsInert ==
  [][ ( /\ variant \in {"part_004", "part_000", "part_003a",
                         "server_1", "server_2", "server_3"}
        /\ lastEvent'.kind \in {"twilioUnparseable", "geminiUnparseable"} )
      => /\ UNCHANGED <<streamSid, geminiReady, isAiSpeaking, audioBuffer,
                        gemState, abortPending, twState, crashed,
                        setupCompleteSeen, stopSeen>>
         /\ sentGemini' = <<>>
         /\ sentTwilio' = <<>> ]_vars

C11_Witness ==
  /\ variant = "part_003a"
  /\ lastEvent.kind = "geminiUnparseable"
  /\ streamSid \in Sids
  /\ audioBuffer # <<>>
  /\ gemState = "OPEN"

\* C12: in part_002 and part_001 a malformed frame (unparseable JSON, a
\* start or media frame without its nested object) is never fatal: the
\* session that received it goes on and no other session is affected.
C12_MalformedFrameNotFatal ==
  ( /\ variant \in {"part_002", "part_001"}
    /\ lastEvent.kind \in TwilioMalformedKinds \cup {"geminiUnparseable"} )
  => /\ ~crashed
     /\ twState = "OPEN"
     /\ other.twState = "OPEN"

C19_ForwardedFrameIsOneAudioMessage ==
  ( /\ variant \in {"part_004", "part_000", "part_002",
                     "server_1", "server_2", "server_3"}
    /\ lastEvent.kind = "media"
    /\ sentGemini # <<>> )
  => /\ Len(sentGemini) = 1
     /\ sentGemini[1].kind = "audio"
     /\ LET mulaw == lastEvent.payload
            data  == sentGemini[1].data
            pcm   == Int16View(data)
        IN  /\ Len(data) = 4 * Len(mulaw)
            /\ \A i \in 1..Len(mulaw) :
                  pcm[2 * i - 1] =
                    IF variant = "part_002"
                    THEN MU_LAW_TABLE[(255 - mulaw[i]) + 1]
                    ELSE ToInt16(decodeMuLaw(mulaw[i]))

C19_Witness ==
  /\ variant = "part_004"
  /\ lastEvent.kind = "media"
  /\ Len(lastEvent.payload) = 2
  /\ AudioSent # <<>>

Abs(n) == IF n < 0 THEN -n ELSE n

\* C14: for every int16 x, decodeMuLaw(encodeMuLaw(x)), the byte unsigned
\* and the decoded value stored as int16, is within the quantization step
\* 8 * 2^e of the segment e that x falls in, plus |x| - 32635 when x is
\* clipped; and 0 comes back as 0.
C14_RoundTripWithinStep ==
  (calc.kind = "sample" /\ calc.steps = <<"encodeMuLaw", "decodeMuLaw">>) =>
     LET x    == calc.input[1]
         y    == calc.val[1]
         e    == ((255 - ToUint8(encodeMuLaw(x))) \div 16) % 8
         clip == IF Abs(x) > CLIP THEN Abs(x) - CLIP ELSE 0
     IN  /\ Abs(y - x) <= 8 * Pow2(e) + clip
         /\ (x = 0) => (y = 0)

\* C15: for every byte b, encodeMuLaw(decodeMuLaw(b)), the decoded value
\* stored as int16 and the result truncated to 8 bits, is b again.
C15_EncodeInvertsDecode ==
  (calc.kind = "byte" /\ calc.steps = <<"decodeMuLaw", "encodeMuLaw">>) =>
     calc.val = calc.input

\* C16: for every int16 x the byte encodeMuLaw stores has, after inversion,
\* an exponent in 0..7, a mantissa in 0..15 and a sign bit that is set
\* exactly when x is negative; every x with |x| > 32635, -32768 included,
\* gets the byte of the clipped value of its sign (top segment, top
\* mantissa), never the byte of a smaller magnitude.
C16_EncodeFieldsAndClipping ==
  (calc.kind = "sample" /\ calc.steps = <<"encodeMuLaw">>) =>
     LET x        == calc.input[1]
         packed   == 255 - calc.val[1]
         sign     == packed \div 128
         exponent == (packed \div 16) % 8
         mantissa == packed % 16
     IN  /\ calc.val[1] \in Bytes
         /\ sign \in {0, 1} /\ exponent \in 0..7 /\ mantissa \in 0..15
         /\ (sign = 1) <=> (x < 0)
         /\ (x > CLIP) =>
               /\ calc.val[1] = ToUint8(encodeMuLaw(CLIP))
               /\ exponent = 7 /\ mantissa = 15
         /\ (x < -CLIP) =>
               /\ calc.val[1] = ToUint8(encodeMuLaw(-CLIP))
               /\ exponent = 7 /\ mantissa = 15

C16_Witness ==
  /\ calc.kind = "sample"
  /\ calc.steps = <<"encodeMuLaw">>
  /\ calc.input = << -32768 >>
  /\ calc.val = << 0 >>

\* C17: downsampleLinear(buf, 24000, 8000) returns floor(N / 3) samples and
\* upsampleLinear(buf, 8000, 16000) returns 2N samples, for a chunk of N
\* samples, N >= 0.
C17_LinearResamplerLengths ==
  (calc.kind = "chunk") =>
     /\ (calc.steps = <<"downsampleLinear">>) =>
           Len(Int16View(calc.val)) = Len(calc.input) \div 3
     /\ (calc.steps = <<"upsampleLinear">>) =>
           Len(Int16View(calc.val)) = 2 * Len(calc.input)

\* C18: upsampleLinear(buf, 8000, 16000) gives output[2i] = input[i] and
\* output[2i+1] = round((input[i] + input[i+1]) / 2), input[i] standing in
\* for input[i+1] at the last index only; the output is the one part_003's
\* upsampleTo16k gives on the same input.
C18_UpsampleLinearInterpolates ==
  (calc.kind = "chunk" /\ calc.steps = <<"upsampleLinear">>) =>
     LET input == calc.input
         n     == Len(input)
         out   == Int16View(calc.val)
     IN  /\ Len(out) = 2 * n
         /\ \A i \in 1..n :
               LET nxt == IF i < n THEN input[i + 1] ELSE input[i]
               IN  /\ out[2 * i - 1] = input[i]
                   /\ out[2 * i] = (input[i] + nxt + 1) \div 2
         /\ calc.val = upsampleTo16kRound(BufferFromInt16(input))

C21_OddChunkTruncated ==
  ( /\ calc.kind = "oddChunk"
    /\ calc.steps \in {<<"downsampleTo8k", "pcmToMulaw">>, <<"pcm24kToMulaw8k">>} )
  => /\ Len(calc.val) = Len(calc.input) \div 3
     /\ \A i \in 1..Len(calc.val) :
           calc.val[i] = ToUint8(encodeMuLaw(calc.input[3 * (i - 1) + 1]))

C21_Witness ==
  /\ calc.kind = "oddChunk"
  /\ calc.steps = <<"pcm24kToMulaw8k">>
  /\ calc.input = << 1000, -1, 0 >>
  /\ calc.val = << 206 >>

\* C22 (as claimed): if the audio peer never sends setupComplete, the
\* session (part_002, server.js second handler) eventually has both its
\* audio-peer and its telephony connection closed.
C22_HandshakeTimesOut ==
  (variant \in {"part_002", "server_2"}) =>
     <>(setupCompleteSeen \/ (gemState = "CLOSED" /\ twState = "CLOSED"))

\* C23 (as claimed): a stop frame, be it the second one, one after the
\* audio-peer socket closed or one before it opened, raises nothing, leads to
\* no unhandled 'error' event when the close completes, and leaves the
\* audio-peer socket closing or closed.
C23_CloseIsIdempotent ==
  /\ (lastEvent.kind = "stop") =>
        (~crashed /\ gemState \in {"CLOSING", "CLOSED"})
  /\ (lastEvent.kind = "geminiCloseDone" /\ stopSeen) => ~crashed

\* C24: the setup message is what the 'open' listener sends first, and
\* nothing (greeting, audio) is passed to the audio-peer socket before that,
\* wherever the telephony frames fall relative to the open event.
C24_SetupIsFirst ==
  /\ (lastEvent.kind = "geminiOpen") =>
        (sentGemini # <<>> /\ sentGemini[1] = SetupMsg)
  /\ (sentGemini # <<>>) => setupSent
  /\ \A i \in 1..Len(sentGemini) :
        (sentGemini[i].kind = "setup") => (lastEvent.kind = "geminiOpen" /\ i = 1)

C24_Witness ==
  /\ variant = "part_001"
  /\ lastEvent.kind = "start"
  /\ setupSent
  /\ sentGemini = << GreetingMsg >>

\* C25 (as claimed): server.js second handler sends the greeting exactly
\* once, when the first setupComplete is processed; never before it and not
\* again on a repeated setupComplete.
C25_GreetingOnce ==
  [][ (variant = "server_2") =>
        LET greetings == SelectSeq(sentGemini', LAMBDA m : m.kind = "greeting")
        IN  /\ (greetings # <<>>) =>
                  (lastEvent'.setupComplete /\ ~setupCompleteSeen)
            /\ ( /\ lastEvent'.kind = "geminiMessage"
                 /\ lastEvent'.setupComplete
                 /\ ~setupCompleteSeen ) => (Len(greetings) = 1) ]_vars

C27_MissingFieldDropsMessage ==
  [][ ( /\ variant \in {"part_004", "part_000"}
        /\ lastEvent'.kind = "geminiMissingField" )
      => /\ sentTwilio' = <<>>
         /\ UNCHANGED <<geminiReady, isAiSpeaking>> ]_vars

\* C28: in part_003 (batching) audio goes to the audio peer only when the
\* fifth chunk of a batch arrives: one message, made from the four buffered
\* chunks and the arriving one in arrival order, after which the buffer is
\* empty; every other accepted chunk is only appended to the buffer.
C28_BatchesOfFive ==
  [][ (variant = "part_003a") =>
        LET audio == SelectSeq(sentGemini', LAMBDA m : m.kind = "audio")
            batch == Append(audioBuffer, lastEvent'.payload)
            joined == batch[1] \o batch[2] \o batch[3] \o batch[4] \o batch[5]
        IN  /\ (audio # <<>>) =>
                  /\ lastEvent'.kind = "media"
                  /\ Len(batch) = 5
                  /\ audio = << AudioMsg(Uplink("part_003a", joined)) >>
                  /\ Len(audio[1].data) = 4 * Len(joined)
                  /\ audioBuffer' = <<>>
            /\ (lastEvent'.kind = "media" /\ audio = <<>>) =>
                  (audioBuffer' = audioBuffer \/ audioBuffer' = batch)
            /\ (lastEvent'.kind # "media") => (audioBuffer' = audioBuffer) ]_vars

C28_Witness ==
  /\ variant = "part_003a"
  /\ lastEvent.kind = "media"
  /\ AudioSent # <<>>
  /\ audioBuffer = <<>>

\* C29 (as claimed): once a stop frame has been processed no media or clear
\* frame is passed to the (still open) telephony socket.
C29_NoTelephonyFramesAfterStop ==
  (stopSeen /\ twState = "OPEN") => (MediaSent = <<>> /\ ClearSent = <<>>)

\* C30 (as claimed): in part_003's second program a media frame makes the
\* handler send audio on the audio-peer socket only while that socket is
\* open.
C30_UplinkOnlyWhileOpen ==
  (variant = "part_003b" /\ AudioSent # <<>>) => (gemState = "OPEN")

\* C31 (as claimed): in part_001, once a start frame has been processed and
\* the audio-peer socket has opened, exactly one greeting has been sent,
\* whichever of the two came first.
C31_GreetingExactlyOnce ==
  (variant = "part_001" /\ streamSid # NULL /\ setupSent) => (greetingCount = 1)

\* C32 (as claimed): in part_000, after an audio-peer message carrying
\* interrupted or turnComplete has been handled, isAiSpeaking is false.
C32_TurnEndClearsSpeaking ==
  ( /\ variant = "part_000"
    /\ lastEvent.kind \in {"geminiMessage", "geminiMissingField"}
    /\ (lastEvent.interrupted \/ lastEvent.turnComplete) )
  => ~isAiSpeaking

\* C33 (as claimed): in part_003 (batching), chunks that are in the buffer
\* when the stop frame is handled are sent to the audio peer by that handler.
C33_StopFlushesBuffer ==
  [][ ( /\ variant = "part_003a"
        /\ lastEvent'.kind = "stop"
        /\ audioBuffer # <<>> )
      => SelectSeq(sentGemini', LAMBDA m : m.kind = "audio") # <<>> ]_vars

\* C34 (as claimed): for every byte, decodeMuLaw returns a value in the int16
\* range, so the Int16Array store in mulawToPcm keeps it as it is.
C34_DecodeStaysInInt16 ==
  (calc.kind = "byte" /\ calc.steps = <<"decodeMuLaw">>) =>
     /\ decodeMuLaw(calc.input[1]) \in Int16Samples
     /\ calc.val[1] = decodeMuLaw(calc.input[1])

\* C35 (as claimed): in part_002, for every value v of the decode table,
\* decoding the byte encodeMuLaw(v) through the table gives v back, and the
\* silence byte 0xFF decodes to 0.
C35_TableInvertsEncode ==
  /\ (calc.kind = "tableEntry" /\ calc.steps = <<"encodeMuLaw", "mulaw8kToPcm16k">>)
        => (calc.val[1] = calc.input[1])
  /\ (calc.kind = "byte" /\ calc.input = <<255>> /\ calc.steps = <<"mulaw8kToPcm16k">>)
        => (calc.val[1] = 0)

\* C37 (as claimed): in part_003 (batching) every sample after the volume
\* boost is 3 times the decoded sample, clamped to the int16 range.
C37_BoostTriplesAndClamps ==
  (calc.kind = "byte" /\ calc.steps = <<"mulawToPcm", "volumeBoost">>) =>
     LET decoded == Int16View(mulawToPcm(calc.input))
         boosted == Int16View(calc.val)
     IN  /\ Len(boosted) = Len(decoded)
         /\ \A i \in 1..Len(decoded) :
               boosted[i] = IF 3 * decoded[i] > 32767 THEN 32767
                            ELSE IF 3 * decoded[i] < -32768 THEN -32768
                            ELSE 3 * decoded[i]

\* C36 (as claimed): in server.js second handler, once the session is ready
\* and the socket open, a media chunk is forwarded if and only if the
\* average absolute value of its decoded 16-bit samples is at least 20.
C36_GateOnAverageSample ==
  [][ ( /\ variant = "server_2"
        /\ lastEvent'.kind = "media"
        /\ gemState = "OPEN" /\ geminiReady )
      => LET samples == Int16View(Uplink("server_2", lastEvent'.payload))
             total   == SumSeq([i \in 1..Len(samples) |-> Abs(samples[i])])
         IN  (SelectSeq(sentGemini', LAMBDA m : m.kind = "audio") # <<>>)
               <=> (total >= 20 * Len(samples)) ]_vars

\* C38: in part_003 (batching) the buffer holds at most 4 chunks after every
\* step, and a media frame handled while the audio-peer socket is not open
\* leaves the buffer as it was.
C38_BufferAtMostFour ==
  [][ (variant = "part_003a") =>
        /\ Len(audioBuffer') <= 4
        /\ (lastEvent'.kind = "media" /\ gemState # "OPEN")
              => (audioBuffer' = audioBuffer) ]_vars

C38_Witness ==
  /\ variant = "part_003a"
  /\ Len(audioBuffer) = 4
  /\ lastEvent.kind = "media"
  /\ gemState # "OPEN"

\* C39: a telephony frame whose event is none of start, media, stop leaves
\* streamSid, the flags, the buffer and both connections as they were and
\* sends nothing on either connection.
C39_OtherEventIsInert ==
  [][ (lastEvent'.kind = "other") =>
        /\ UNCHANGED <<streamSid, geminiReady, isAiSpeaking, audioBuffer,
                       gemState, abortPending, twState, crashed>>
        /\ sentGemini' = <<>>
        /\ sentTwilio' = <<>> ]_vars

C39_Witness ==
  /\ lastEvent.kind = "other"
  /\ streamSid # NULL
  /\ gemState = "OPEN"
  /\ geminiReady
  /\ variant = "part_002"
====
